---- MODULE Spec2Model ----
(***************************************************************************)
(* dip_utils/vis_utils.py: the colour-space scatter plots (vis_rgb_cube,   *)
(* vis_hsv_cube, vis_lab_cube, vis_ybr_cube), the three-channel histogram  *)
(* (vis_hists) and the luminance normaliser (lab_uniform).                 *)
(*                                                                         *)
(* One behaviour is one call.  Init draws the operation and its arguments, *)
(* the actions are the statements of the called function in program order, *)
(* and the plotting surface (matplotlib) is the log `figures`/`calls`.     *)
(*                                                                         *)
(* An array is [shape, dtype, data] with data the C-order flat buffer.     *)
(* A number v of the program is the integer v * Unit (fixed point), so     *)
(* 1.0 is Unit and 255 is MAXBYTE * Unit.  Values the colour library       *)
(* computes (hue, lightness, ...) are kept symbolic.                       *)
(***************************************************************************)
EXTENDS Integers, Sequences, FiniteSets, TLC

VARIABLES op, I, lyst, numpoints, pc, err, figures, calls, randomInds,
          clyst_lab, ret

vars == <<op, I, lyst, numpoints, pc, err, figures, calls, randomInds,
          clyst_lab, ret>>

\* ---------------------------------------------------------------- bounds
\* small images have at most MaxPixels pixels
MaxPixels == 4
\* requested sample counts 0..MaxCount (besides NUMPOINTS and NUMPOINTS+1)
MaxCount == 5
\* colour lists have at most MaxColors colours
MaxColors == 3
\* fixed-point resolution: the model's numbers are multiples of 1/Unit
Unit == 2

\* ------------------------------------------------------ program constants
\* NUMPOINTS = 5000 (vis_rgb_cube), also the default of numpoints
NUMPOINTS == 5000
\* upper end of the integer range in vis_rgb_cube's assertion and colr_func
MAXBYTE == 255
\* np.histogram(..., bins=256)
BINS == 256

\* ----------------------------------------------------------------- arrays
RECURSIVE Prod(_)
Prod(s) == IF s = <<>> THEN 1 ELSE Head(s) * Prod(Tail(s))

Range(f) == {f[i] : i \in DOMAIN f}

SetMax(S) == CHOOSE x \in S : \A y \in S : y <= x
SetMin(S) == CHOOSE x \in S : \A y \in S : x <= y

\* I.shape[-1]
LastDim(A) == A.shape[Len(A.shape)]

\* number of rows of the (N*M) x 3 pixel table: X.shape[0]
PixelCount(A) == Prod(SubSeq(A.shape, 1, Len(A.shape) - 1))

\* I[..., i].ravel(), i counted from 1
Channel(A, i) ==
    [j \in 1..PixelCount(A) |-> A.data[(j - 1) * LastDim(A) + i]]

\* the table whose columns are the sequences c1, c2, c3
Columns(c1, c2, c3) == [j \in 1..Len(c1) |-> <<c1[j], c2[j], c3[j]>>]

\* np.stack([I[...,i].ravel() for i in range(3)]).T : row j is pixel j
Stack3(A) == Columns(Channel(A, 1), Channel(A, 2), Channel(A, 3))

\* I.min(), I.max()
ArrMin(A) == SetMin(Range(A.data))
ArrMax(A) == SetMax(Range(A.data))

\* n/d as numpy computes it: the float n/d, nan for 0/0 and inf for x/0
\* (a RuntimeWarning, no exception)
Div(n, d) ==
    [n |-> n, d |-> d,
     is |-> IF d # 0 THEN "number" ELSE IF n = 0 THEN "nan" ELSE "inf"]

\* ----------------------------------------------------------------- inputs
Ops == {"vis_rgb_cube", "vis_hsv_cube", "vis_lab_cube", "vis_ybr_cube",
        "vis_hists", "lab_uniform"}
ScatterOps == {"vis_rgb_cube", "vis_hsv_cube", "vis_lab_cube", "vis_ybr_cube"}
ConvertOps == {"vis_hsv_cube", "vis_lab_cube", "vis_ybr_cube"}

FloatTypes == {"float64", "float32"}
DTypes == FloatTypes \cup {"int64"}

\* pixels of floating-point images: (0, 1/Unit, 1) is in range, the others
\* hold 1 + 1/Unit and -1/Unit
FloatPixels == { <<0, 1, Unit>>, <<Unit + 1, 0, 0>>, <<-1, 0, Unit>> }

\* pixels of integer images: red, white, (0,1,1), and (256,0,0) out of range
IntPixels == { <<MAXBYTE * Unit, 0, 0>>,
               <<MAXBYTE * Unit, MAXBYTE * Unit, MAXBYTE * Unit>>,
               <<0, Unit, Unit>>,
               <<(MAXBYTE + 1) * Unit, 0, 0>> }

Pixels(dtype) == IF dtype \in FloatTypes THEN FloatPixels ELSE IntPixels

\* the flat buffer of an image whose pixel j is px[j], each pixel cut or
\* cycled to c channels
Flatten(px, c) ==
    [k \in 1..(Len(px) * c) |->
        px[((k - 1) \div c) + 1][(((k - 1) % c) % 3) + 1]]

MkImage(shape, dtype, px) ==
    [shape |-> shape, dtype |-> dtype,
     data |-> Flatten(px, shape[Len(shape)])]

Uniform(n, p) == [j \in 1..n |-> p]

SmallShapes ==
    {s \in (1..MaxPixels) \X (1..MaxPixels) :
        s[1] <= s[2] /\ s[1] * s[2] <= MaxPixels}

\* every (h, w, 3) image of at most MaxPixels pixels over the palette
RgbImages ==
    UNION { UNION { { MkImage(<<s[1], s[2], 3>>, t, px) :
                        px \in [1..(s[1] * s[2]) -> Pixels(t)] } :
                    t \in DTypes } :
            s \in SmallShapes }

\* images of NUMPOINTS pixels, one colour each: (0, 1/Unit, 1) and red
LargeImages ==
    { MkImage(<<1, NUMPOINTS, 3>>, "float64", Uniform(NUMPOINTS, <<0, 1, Unit>>)),
      MkImage(<<1, NUMPOINTS, 3>>, "int64", Uniform(NUMPOINTS, <<MAXBYTE * Unit, 0, 0>>)) }

\* images that are not (h, w, 3): 2 or 4 channels, or two-dimensional
BadShapeImages ==
    UNION { { MkImage(<<s[1], s[2], c>>, t, Uniform(s[1] * s[2], <<0, 1, Unit>>)) :
                c \in {2, 4}, t \in FloatTypes } : s \in SmallShapes }
    \cup
    UNION { { MkImage(<<s[1], s[2], c>>, t,
                      Uniform(s[1] * s[2], <<MAXBYTE * Unit, 0, 0>>)) :
                c \in {2, 4}, t \in {"int64"} } : s \in SmallShapes }
    \cup
    { MkImage(<<n, 3>>, t, Uniform(n, <<0, 1, Unit>>)) :
        n \in 1..MaxPixels, t \in FloatTypes }

SmallImages == RgbImages \cup BadShapeImages

\* requested sample counts: small ones and the default for the small
\* images, the default and one more for the images of NUMPOINTS pixels
SmallCounts == (0..MaxCount) \cup {NUMPOINTS}
LargeCounts == {NUMPOINTS, NUMPOINTS + 1}

\* colours of a colour list, values in [0,1]: red, green, blue
ListColors == { <<Unit, 0, 0>>, <<0, Unit, 0>>, <<0, 0, Unit>> }
ColorLists == UNION { [1..n -> ListColors] : n \in 0..MaxColors }

NoArray == [shape |-> <<0>>, dtype |-> "none", data |-> <<>>]

Init ==
    /\ \/ /\ op = "lab_uniform"
          /\ I = NoArray /\ lyst \in ColorLists /\ numpoints = 0
       \/ /\ op = "vis_hists"
          /\ I \in SmallImages \cup LargeImages /\ lyst = <<>> /\ numpoints = 0
       \/ /\ op \in ScatterOps
          /\ I \in SmallImages /\ lyst = <<>> /\ numpoints \in SmallCounts
       \/ /\ op \in ScatterOps
          /\ I \in LargeImages /\ lyst = <<>> /\ numpoints \in LargeCounts
    /\ pc = "call"
    /\ err = "none"
    /\ figures = 0
    /\ calls = <<>>
    /\ randomInds = <<>>
    /\ clyst_lab = NoArray
    /\ ret = NoArray

\* ------------------------------------------------------------- primitives
\* (variant: the assertion without its channel test)
ShapeOKAnyChannels(A) == Len(A.shape) = 3

\* len(I.shape)==3 and I.shape[-1]==3
ShapeOK(A) == Len(A.shape) = 3 /\ LastDim(A) = 3

\* the range assertion of vis_rgb_cube: [0,1] when I.dtype == 'float'
\* (numpy's 'float' is float64), [0,255] for every other dtype
RangeOK(A) ==
    IF A.dtype = "float64"
      THEN ArrMin(A) >= 0 /\ ArrMax(A) <= Unit
      ELSE ArrMin(A) >= 0 /\ ArrMax(A) <= MAXBYTE * Unit

\* colr_func: X/255, or X itself when np.max(I) <= 1.0; the divisor
ColrFunc(A) == IF ArrMax(A) <= Unit THEN Unit ELSE MAXBYTE * Unit

\* every component of a table of pixels over the divisor d, less lo
Scaled(rows, lo, d) ==
    [i \in DOMAIN rows |-> [c \in 1..3 |-> Div(rows[i][c] - lo, d)]]

\* the size vis_rgb_cube hands to np.random.choice
RgbSampleSize(k) == NUMPOINTS

\* np.random.choice(n, size, replace=False) raises ValueError
ChoiceRaises(n, size) == size > n

\* the strictly increasing sequence of the members of S
RECURSIVE Sorted(_)
Sorted(S) ==
    IF S = {} THEN <<>>
    ELSE LET m == SetMin(S) IN <<m>> \o Sorted(S \ {m})

\* (variant: replace=True, where an index may be drawn again)
ChoiceWithReplacement(n, size) ==
    IF n <= MaxPixels
      THEN [1..size -> 0..(n - 1)]
      ELSE { [i \in 1..size |-> (st + i - 1) % n] : st \in {0, n - 1} } \cup
           { [i \in 1..size |-> 0] }

\* the draws of np.random.choice(n, size, replace=False): size distinct
\* indices of 0..n-1.  The order of a draw reaches nothing but the order of
\* the plotted points, so draws are listed up to order; of an image of more
\* than MaxPixels pixels only the runs start, start+1, ... (mod n) are listed.
Choice(n, size) ==
    IF n <= MaxPixels
      THEN { Sorted(S) : S \in {T \in SUBSET (0..(n - 1)) : Cardinality(T) = size} }
      ELSE { [i \in 1..size |-> (st + i - 1) % n] : st \in {0, n - 1} }

\* X[randomInds, :] : the rows of a pixel table at the drawn indices
Take(X, inds) == [i \in 1..Len(inds) |-> X[inds[i] + 1]]

\* all components of a table of pixels
Components(rows) == UNION { Range(rows[i]) : i \in DOMAIN rows }

\* the display colours of vis_hsv_cube, vis_lab_cube and vis_ybr_cube:
\* the sampled pixels, shifted by their min and divided by the max of the
\* result when their max is above 1
PointColors(rows) ==
    IF SetMax(Components(rows)) > Unit
      THEN Scaled(rows, SetMin(Components(rows)),
                  SetMax(Components(rows)) - SetMin(Components(rows)))
      ELSE Scaled(rows, 0, Unit)

\* skimage.color.rgb2hsv / rgb2lab / rgb2ycbcr reject an array whose last
\* axis is not of size 3
ConvertRaises(A) == LastDim(A) # 3

\* component c of pixel p in colour space sp, as the colour library computes
\* it (symbolic)
Conv(sp, p, c) == [space |-> sp, of |-> p, comp |-> c]

\* the three coordinate axes each operation plots, for pixel p
Coords(o, p) ==
    CASE o = "vis_rgb_cube" -> <<p[1], p[2], p[3]>>
      [] o = "vis_hsv_cube" -> <<[mul |-> Conv("hsv", p, 2), cos |-> Conv("hsv", p, 1)],
                                 [mul |-> Conv("hsv", p, 2), sin |-> Conv("hsv", p, 1)],
                                 Conv("hsv", p, 3)>>
      [] o = "vis_lab_cube" -> <<Conv("lab", p, 2), Conv("lab", p, 3), Conv("lab", p, 1)>>
      [] o = "vis_ybr_cube" -> <<Conv("ycbcr", p, 1), Conv("ycbcr", p, 2), Conv("ycbcr", p, 3)>>

AxisLabels(o) ==
    CASE o = "vis_rgb_cube" -> <<"Red", "Green", "Blue">>
      [] o = "vis_hsv_cube" -> <<"H and S", "H and S", "Value">>
      [] o = "vis_lab_cube" -> <<"green->red", "blue->yellow", "Lightness">>
      [] o = "vis_ybr_cube" -> <<"Lightness (Y)", "yellow->blue (Cb)", "cyan->red (Cr)">>

\* plt.figure(figsize=(4,4)); fig.add_subplot(111, projection='3d')
AddSubplot == [fn |-> "add_subplot"]

\* ax.scatter(x, y, z, c=colors): one point per sampled row
Scatter(o, rows, colors) ==
    [fn |-> "scatter",
     pts |-> [i \in DOMAIN rows |-> Coords(o, rows[i])],
     c |-> colors]

SetLabels(o) ==
    << [fn |-> "set_xlabel", s |-> AxisLabels(o)[1]],
       [fn |-> "set_ylabel", s |-> AxisLabels(o)[2]],
       [fn |-> "set_zlabel", s |-> AxisLabels(o)[3]] >>

Raise(e) == /\ err' = e
            /\ pc' = "raised"

\* ----------------------------------------------------------- vis_rgb_cube
\* the shape and range assertions
RgbValidate ==
    /\ pc = "call" /\ op = "vis_rgb_cube"
    /\ IF ShapeOK(I) /\ RangeOK(I)
         THEN pc' = "rgb_checked" /\ err' = err
         ELSE Raise("AssertionError")
    /\ UNCHANGED <<op, I, lyst, numpoints, figures, calls, randomInds, clyst_lab, ret>>

\* fig = plt.figure(...); ax = fig.add_subplot(...)
RgbFigure ==
    /\ pc = "rgb_checked"
    /\ figures' = figures + 1
    /\ calls' = Append(calls, AddSubplot)
    /\ pc' = "rgb_figure"
    /\ UNCHANGED <<op, I, lyst, numpoints, err, randomInds, clyst_lab, ret>>

\* X = np.stack(...).T; randomInds = np.random.choice(np.arange(X.shape[0]), NUMPOINTS, replace=False)
RgbSample ==
    /\ pc = "rgb_figure"
    /\ IF ChoiceRaises(PixelCount(I), RgbSampleSize(numpoints))
         THEN Raise("ValueError:choice") /\ randomInds' = randomInds
         ELSE /\ randomInds' \in Choice(PixelCount(I), RgbSampleSize(numpoints))
              /\ pc' = "rgb_sampled" /\ err' = err
    /\ UNCHANGED <<op, I, lyst, numpoints, figures, calls, clyst_lab, ret>>

\* ax.scatter(...); the axis labels; plt.tight_layout()
RgbScatter ==
    /\ pc = "rgb_sampled"
    /\ LET rows == Take(Stack3(I), randomInds)
       IN calls' = calls \o <<Scatter(op, rows, Scaled(rows, 0, ColrFunc(I)))>>
                         \o SetLabels(op) \o <<[fn |-> "tight_layout"]>>
    /\ pc' = "done"
    /\ UNCHANGED <<op, I, lyst, numpoints, err, figures, randomInds, clyst_lab, ret>>

\* ------------------------------- vis_hsv_cube, vis_lab_cube, vis_ybr_cube
\* the colour conversion, the pixel tables and the random draw
ConvertAndSample ==
    /\ pc = "call"
    /\ IF ConvertRaises(I)
         THEN Raise("ValueError:convert") /\ randomInds' = randomInds
         ELSE IF ChoiceRaises(PixelCount(I), numpoints)
           THEN Raise("ValueError:choice") /\ randomInds' = randomInds
           ELSE /\ randomInds' \in Choice(PixelCount(I), numpoints)
                /\ pc' = "sampled" /\ err' = err
    /\ UNCHANGED <<op, I, lyst, numpoints, figures, calls, clyst_lab, ret>>

\* the figure, the point colours (max() of an empty table raises), the
\* scatter and the axis labels
PlotSampled ==
    /\ pc = "sampled"
    /\ figures' = figures + 1
    /\ LET rows == Take(Stack3(I), randomInds)
       IN IF Len(rows) = 0
            THEN /\ calls' = Append(calls, AddSubplot)
                 /\ Raise("ValueError:max")
            ELSE /\ calls' = calls \o <<AddSubplot, Scatter(op, rows, PointColors(rows))>>
                                   \o SetLabels(op)
                 /\ pc' = "done" /\ err' = err
    /\ UNCHANGED <<op, I, lyst, numpoints, randomInds, clyst_lab, ret>>

HsvConvertAndSample == op = "vis_hsv_cube" /\ ConvertAndSample
HsvPlot == op = "vis_hsv_cube" /\ PlotSampled
LabConvertAndSample == op = "vis_lab_cube" /\ ConvertAndSample
LabPlot == op = "vis_lab_cube" /\ PlotSampled
YbrConvertAndSample == op = "vis_ybr_cube" /\ ConvertAndSample
YbrPlot == op = "vis_ybr_cube" /\ PlotSampled

\* -------------------------------------------------------------- vis_hists
\* _, allbins = np.histogram(I.ravel(), bins=256): BINS + 1 equally spaced
\* edges from min to max (from min - 0.5 to max + 0.5 when they are equal)
Linspace(lo, hi, n, d) ==
    [k \in 1..(n + 1) |-> Div(n * lo + (k - 1) * (hi - lo), n * d)]

BinEdges(A) ==
    IF ArrMin(A) = ArrMax(A)
      THEN Linspace(2 * ArrMin(A) - Unit, 2 * ArrMax(A) + Unit, BINS, 2 * Unit)
      ELSE Linspace(2 * ArrMin(A), 2 * ArrMax(A), BINS, 2 * Unit)

\* plt.subplots, imshow, the three histograms over allbins, the legend,
\* tight_layout
HistsCalls(A, allbins) ==
    << [fn |-> "subplots"],
       [fn |-> "imshow", img |-> A],
       [fn |-> "set_title", s |-> "Image"],
       [fn |-> "hist", x |-> Channel(A, 1), bins |-> allbins, label |-> "red"],
       [fn |-> "hist", x |-> Channel(A, 2), bins |-> allbins, label |-> "green"],
       [fn |-> "hist", x |-> Channel(A, 3), bins |-> allbins, label |-> "blue"],
       [fn |-> "legend"],
       [fn |-> "tight_layout"] >>

\* the shape assertion (the only one) and the shared bin edges
HistsValidate ==
    /\ pc = "call" /\ op = "vis_hists"
    /\ IF ShapeOK(I)
         THEN pc' = "hists_checked" /\ err' = err
         ELSE Raise("AssertionError")
    /\ UNCHANGED <<op, I, lyst, numpoints, figures, calls, randomInds, clyst_lab, ret>>

\* lines 193-202 of vis_hists
HistsPlot ==
    /\ pc = "hists_checked"
    /\ figures' = figures + 1
    /\ calls' = calls \o HistsCalls(I, BinEdges(I))
    /\ pc' = "done"
    /\ UNCHANGED <<op, I, lyst, numpoints, err, randomInds, clyst_lab, ret>>

\* ------------------------------------------------------------ lab_uniform
\* np.array(lyst, ndmin=3): a fresh array; n colours give shape (1, n, 3),
\* the empty list gives (1, 1, 0)
ToArray3(l) ==
    IF Len(l) = 0
      THEN [shape |-> <<1, 1, 0>>, dtype |-> "float64", data |-> <<>>]
      ELSE [shape |-> <<1, Len(l), 3>>, dtype |-> "float64", data |-> Flatten(l, 3)]

\* color.rgb2lab / color.lab2rgb: a new array of the same shape, each pixel
\* converted on its own
ConvertArray(sp, A) ==
    [shape |-> A.shape, dtype |-> "float64",
     data |-> [k \in 1..Len(A.data) |->
                 Conv(sp, Stack3(A)[((k - 1) \div 3) + 1], ((k - 1) % 3) + 1)]]

\* A[..., 0] = v
WriteChannel0(A, v) ==
    [A EXCEPT !.data = [k \in 1..Len(A.data) |->
                          IF (k - 1) % LastDim(A) = 0 THEN v ELSE A.data[k]]]

\* np.mean(x) (symbolic: the mean of the listed values)
Mean(x) == [mean_of |-> x]

\* A.squeeze(): every axis of length 1 is dropped
Squeeze(A) == [A EXCEPT !.shape = SelectSeq(A.shape, LAMBDA d : d # 1)]

\* clyst = np.array(lyst, ndmin=3); clyst_lab = color.rgb2lab(clyst)
LabUniformConvert ==
    /\ pc = "call" /\ op = "lab_uniform"
    /\ IF ConvertRaises(ToArray3(lyst))
         THEN Raise("ValueError:convert") /\ clyst_lab' = clyst_lab
         ELSE /\ clyst_lab' = ConvertArray("lab", ToArray3(lyst))
              /\ pc' = "lab_converted" /\ err' = err
    /\ UNCHANGED <<op, I, lyst, numpoints, figures, calls, randomInds, ret>>

\* (variant: the assignment goes through to the caller's list, whose
\* colours all get one common first component)
LabUniformAssignMeanThrough ==
    /\ pc = "lab_converted"
    /\ clyst_lab' = WriteChannel0(clyst_lab, Mean(Channel(clyst_lab, 1)))
    /\ lyst' = [i \in DOMAIN lyst |-> [lyst[i] EXCEPT ![1] = lyst[1][1]]]
    /\ pc' = "lab_assigned"
    /\ UNCHANGED <<op, I, numpoints, err, figures, calls, randomInds, ret>>

\* clyst_lab[...,0] = np.mean(clyst_lab[...,0].ravel())
LabUniformAssignMean ==
    /\ pc = "lab_converted"
    /\ clyst_lab' = WriteChannel0(clyst_lab, Mean(Channel(clyst_lab, 1)))
    /\ pc' = "lab_assigned"
    /\ UNCHANGED <<op, I, lyst, numpoints, err, figures, calls, randomInds, ret>>

\* return color.lab2rgb(clyst_lab).squeeze()
LabUniformReturn ==
    /\ pc = "lab_assigned"
    /\ ret' = Squeeze(ConvertArray("rgb", clyst_lab))
    /\ pc' = "done"
    /\ UNCHANGED <<op, I, lyst, numpoints, err, figures, calls, randomInds, clyst_lab>>

\* ------------------------------------------------------------------- spec
Next ==
    \/ RgbValidate
    \/ RgbFigure
    \/ RgbSample
    \/ RgbScatter
    \/ HsvConvertAndSample
    \/ HsvPlot
    \/ LabConvertAndSample
    \/ LabPlot
    \/ YbrConvertAndSample
    \/ YbrPlot
    \/ HistsValidate
    \/ HistsPlot
    \/ LabUniformConvert
    \/ LabUniformAssignMean
    \/ LabUniformReturn

Spec == Init /\ [][Next]_vars

\* ----------------------------------------------------------------- claims
Finished == pc \in {"done", "raised"}

IsFloat(A) == A.dtype \in FloatTypes

\* shape (height, width, 3)
IsHW3(A) == Len(A.shape) = 3 /\ A.shape[3] = 3

AllWithin(A, lo, hi) == \A k \in DOMAIN A.data : lo <= A.data[k] /\ A.data[k] <= hi

\* an Image of the data model: (h, w, 3), floats in [0,1] or integers in [0,255]
ValidImage(A) ==
    /\ IsHW3(A)
    /\ IF IsFloat(A) THEN AllWithin(A, 0, Unit) ELSE AllWithin(A, 0, MAXBYTE * Unit)

\* pixel j (from 0) of the flattened pixel list
PixelAt(A, j) == <<A.data[3 * j + 1], A.data[3 * j + 2], A.data[3 * j + 3]>>

Pixels3(A) == Prod(SubSeq(A.shape, 1, Len(A.shape) - 1))

Smaller(a, b) == IF a <= b THEN a ELSE b

\* a defined number in [0,1]
InUnitRange(q) ==
    /\ q.is = "number"
    /\ IF q.d > 0 THEN 0 <= q.n /\ q.n <= q.d
                  ELSE q.n <= 0 /\ q.d <= q.n

ScatterCalls == SelectSeq(calls, LAMBDA c : c.fn = "scatter")

\* the sample holds k pairwise distinct indices of [0, n)
IsSample(inds, k, n) ==
    /\ Len(inds) = k
    /\ Cardinality(Range(inds)) = k
    /\ \A i \in DOMAIN inds : 0 <= inds[i] /\ inds[i] < n

\* C1: for every valid image and every requested count k, vis_rgb_cube
\* does not raise and samples exactly min(k, pixelCount) distinct indices.
C1_RgbSamplesMinOfRequestAndPixels ==
    (op = "vis_rgb_cube" /\ ValidImage(I) /\ Finished) =>
        /\ pc = "done"
        /\ IsSample(randomInds, Smaller(numpoints, Pixels3(I)), Pixels3(I))

\* C2: an image whose shape is not (height, width, 3) makes vis_rgb_cube
\* and vis_hists stop in the validation error, with no figure created and
\* no plotting call made.
C2_BadShapeRaisesBeforePlotting ==
    (op \in {"vis_rgb_cube", "vis_hists"} /\ ~IsHW3(I)) =>
        /\ figures = 0
        /\ calls = <<>>
        /\ pc \in {"call", "raised"}
        /\ pc = "raised" => err = "AssertionError"

C2_Witness ==
    /\ op = "vis_rgb_cube" /\ Len(I.shape) = 3 /\ I.shape[3] = 2
    /\ pc = "raised" /\ err = "AssertionError"

\* C3: a 3-channel float image (of any width) with a value outside [0,1]
\* makes vis_rgb_cube and vis_hists raise the validation error, and a
\* 3-channel integer image with a value outside [0,255] makes vis_rgb_cube
\* raise it.
C3_OutOfRangeRaises ==
    ( /\ Finished
      /\ IsHW3(I)
      /\ \/ /\ op \in {"vis_rgb_cube", "vis_hists"}
            /\ IsFloat(I) /\ ~AllWithin(I, 0, Unit)
         \/ /\ op = "vis_rgb_cube"
            /\ ~IsFloat(I) /\ ~AllWithin(I, 0, MAXBYTE * Unit) )
    => (pc = "raised" /\ err = "AssertionError")

\* C4: in every public operation, a run that ends in a validation, sampling
\* or conversion error has created no figure and made no plotting call.
C4_NoPlottingBeforeError ==
    (pc = "raised" /\ err \in {"AssertionError", "ValueError:choice", "ValueError:convert"})
    => (figures = 0 /\ calls = <<>>)

\* C5: lab_uniform returns a sequence of 3-valued colours as long as its
\* (non-empty) argument, one colour per input colour in the same order,
\* also for a list of exactly one colour.
C5_SameLengthAndOrder ==
    (op = "lab_uniform" /\ Len(lyst) >= 1 /\ Finished) =>
        /\ pc = "done"
        /\ ret.shape = <<Len(lyst), 3>>
        /\ \A i \in 1..Len(lyst) : \A c \in 1..3 :
              /\ ret.data[3 * (i - 1) + c].comp = c
              /\ ret.data[3 * (i - 1) + c].of[2].of = lyst[i]

\* C7: in vis_hsv_cube, vis_lab_cube and vis_ybr_cube, for a requested
\* count K <= N the sample holds exactly K pairwise distinct indices of
\* [0, N), and exactly those K pixels are passed to the scatter plot.
C7_SampleExactlyKDistinct ==
    (op \in ConvertOps /\ I.shape[Len(I.shape)] = 3 /\ numpoints <= Pixels3(I)) =>
        /\ err # "ValueError:choice"
        /\ pc # "call" => IsSample(randomInds, numpoints, Pixels3(I))
        /\ pc # "done" => ScatterCalls = <<>>
        /\ pc = "done" =>
              /\ Len(ScatterCalls) = 1
              /\ ScatterCalls[1].pts =
                    [i \in 1..numpoints |-> Coords(op, PixelAt(I, randomInds[i]))]
              /\ DOMAIN ScatterCalls[1].c = 1..numpoints

C7_Witness ==
    /\ op = "vis_lab_cube" /\ pc = "done"
    /\ numpoints = 3 /\ Pixels3(I) = 4
    /\ Len(ScatterCalls[1].pts) = 3

\* C8: in each of the four scatter operations, a requested count K above
\* the pixel count N of a valid image ends in the sampling error.
C8_OversizedRequestRaises ==
    (op \in ScatterOps /\ ValidImage(I) /\ numpoints > Pixels3(I) /\ Finished) =>
        (pc = "raised" /\ err = "ValueError:choice")

\* C9: no operation modifies its input: every step leaves the caller's
\* image array and colour list as they were.
C9_InputsUnchanged == [][I' = I /\ lyst' = lyst]_vars

C9_Witness ==
    /\ op = "lab_uniform" /\ pc = "done"
    /\ Len(lyst) = 2 /\ ret.shape = <<2, 3>>
    /\ clyst_lab.data[1] = Mean(<<Conv("lab", lyst[1], 1), Conv("lab", lyst[2], 1)>>)

\* C10: for a valid image and a successful sample, every display-colour
\* component passed to the scatter plot is a defined number in [0,1], also
\* when all sampled pixels share one value above 1.
C10_DisplayColoursInUnitRange ==
    (op \in ScatterOps /\ ValidImage(I) /\ pc = "done") =>
        \A i \in DOMAIN ScatterCalls[1].c : \A c \in 1..3 :
            InUnitRange(ScatterCalls[1].c[i][c])

====
